---- MODULE Spec2Model ----
(***************************************************************************)
(* Reliability Map view of OmniBAR: the data hook useReliabilityMapData    *)
(* (frontend/src/hooks/useReliabilityMapData.ts) and the page component    *)
(* ReliabilityMap (frontend/src/pages/ReliabilityMap.tsx).                  *)
(*                                                                         *)
(* React is modelled by what the two files rely on: a state setter         *)
(* enqueues an update on the component instance, a render applies every    *)
(* queued update at once (setters called back to back in one continuation  *)
(* are batched), and passive effects (useEffect) run after the render that *)
(* scheduled them has been committed.  A render that throws, with no error *)
(* boundary in the tree, unmounts the tree.                                *)
(*                                                                         *)
(* Numbers: scores, strengths and drifts are integer percents (0.85 is     *)
(* 85); coordinates are thousandths of a pixel.                            *)
(***************************************************************************)
EXTENDS Integers, Sequences, FiniteSets, TLC

\* ---------------------------------------------------------------- bounds
MaxNodes == 2
MaxLinks == 1
MaxMounts == 2
MaxRing == 4

\* ------------------------------------------------------ program constants
centerX == 400
centerY == 300
radius == 150

\* ------------------------------------------------------------ data model
NoScore == -1
NoError == "<null>"

NoLabel == "<undefined>"

NodePool ==
    { [id |-> "agent", label |-> "Active Agent", type |-> "agent",
       score |-> 85],
      [id |-> "s1", label |-> "Calculator Demo Suite", type |-> "suite",
       score |-> 80],
      [id |-> "s1", label |-> "Suite 1", type |-> "suite", score |-> 0],
      [id |-> "s2", label |-> NoLabel, type |-> "persona", score |-> NoScore] }

LinkPool ==
    { [source |-> "agent", target |-> "s1",    strength |-> 80,  drift |-> 10],
      [source |-> "s1",    target |-> "s2",    strength |-> 0,   drift |-> 100],
      [source |-> "s2",    target |-> "agent", strength |-> 100, drift |-> 0],
      [source |-> "agent", target |-> "ghost", strength |-> 50,  drift |-> 50],
      [source |-> "ghost", target |-> "s1",    strength |-> 50,  drift |-> 150],
      [source |-> "s1",    target |-> "agent", strength |-> 100, drift |-> 150] }

SeqsUpTo(S, n) == UNION { [1..k -> S] : k \in 0..n }

Null == [kind |-> "null", hasNodes |-> FALSE, hasLinks |-> FALSE,
         nodes |-> <<>>, links |-> <<>>]

Payload(ns, ls) == [kind |-> "object", hasNodes |-> TRUE, hasLinks |-> TRUE,
                    nodes |-> ns, links |-> ls]

Payloads == { Payload(ns, ls) : ns \in SeqsUpTo(NodePool, MaxNodes),
                                ls \in SeqsUpTo(LinkPool, MaxLinks) }

\* JSON objects that parse but lack the nodes array, the links array or both.
Malformed ==
    { [kind |-> "object", hasNodes |-> FALSE, hasLinks |-> FALSE,
       nodes |-> <<>>, links |-> <<>>],
      [kind |-> "object", hasNodes |-> FALSE, hasLinks |-> TRUE,
       nodes |-> <<>>, links |-> <<>>],
      [kind |-> "object", hasNodes |-> TRUE, hasLinks |-> FALSE,
       nodes |-> <<>>, links |-> <<>>] }

\* What response.json() can resolve to.
Bodies == Payloads \cup Malformed \cup {Null}

\* What fetch() can reject with: an Error carrying a message, or a thrown
\* value that is no Error.
Rejections ==
    { [isError |-> TRUE,  message |-> "Failed to fetch"],
      [isError |-> TRUE,  message |-> "Load failed"],
      [isError |-> FALSE, message |-> "timeout"] }

\* What response.json() can reject with on a body that is not JSON.
ParseErrors ==
    { [isError |-> TRUE, message |-> "Unexpected token < in JSON at position 0"] }

HttpErrorMessage == "Failed to fetch reliability map data"

\* -------------------------------------------------------------- layout
\* Math.cos and Math.sin of (index / n) * 2 * PI, times 1000, for the angles
\* that are whole degrees on the table.
\* Mutant: index / n is taken as an integer division.
Degrees_IntDiv(index, n) == 360 * (index \div n)

Degrees(index, n) == (360 * index) \div n

CosMilli(deg) ==
    CASE deg = 0   -> 1000  [] deg = 60  -> 500   [] deg = 72  -> 309
      [] deg = 90  -> 0     [] deg = 120 -> -500  [] deg = 144 -> -809
      [] deg = 180 -> -1000 [] deg = 216 -> -809  [] deg = 240 -> -500
      [] deg = 270 -> 0     [] deg = 288 -> 309   [] deg = 300 -> 500

SinMilli(deg) ==
    CASE deg = 0   -> 0     [] deg = 60  -> 866   [] deg = 72  -> 951
      [] deg = 90  -> 1000  [] deg = 120 -> 866   [] deg = 144 -> 588
      [] deg = 180 -> 0     [] deg = 216 -> -588  [] deg = 240 -> -866
      [] deg = 270 -> -1000 [] deg = 288 -> -951  [] deg = 300 -> -866

EmptyMap == [k \in {} |-> [x |-> 0, y |-> 0]]

MapSet(m, key, val) ==
    [k \in DOMAIN m \cup {key} |-> IF k = key THEN val ELSE m[k]]

MapHas(m, key) == key \in DOMAIN m

Center == [x |-> centerX * 1000, y |-> centerY * 1000]

RingPosition(index, n) ==
    [x |-> centerX * 1000 + radius * CosMilli(Degrees(index, n)),
     y |-> centerY * 1000 + radius * SinMilli(Degrees(index, n))]

\* Mutant: the center is recognised by its type, not by its id.
SurroundingNodes_ByType(nodes) == SelectSeq(nodes, LAMBDA n : n.type # "agent")

\* Mutant: the filter on the center id is left out.
SurroundingNodes_All(nodes) == nodes

SurroundingNodes(nodes) == SelectSeq(nodes, LAMBDA n : n.id # "agent")

RECURSIVE PlaceSurrounding(_, _, _)
PlaceSurrounding(m, surrounding, k) ==
    IF k > Len(surrounding) THEN m
    ELSE PlaceSurrounding(
             MapSet(m, surrounding[k].id, RingPosition(k - 1, Len(surrounding))),
             surrounding, k + 1)

\* The body of the layout effect after its guard: newPositions.
Layout(nodes) ==
    PlaceSurrounding(MapSet(EmptyMap, "agent", Center),
                     SurroundingNodes(nodes), 1)

\* ------------------------------------------------------------ rendering
\* JavaScript truthiness of the values the component tests.
TruthyError(e) == e # NoError /\ e # ""
TruthyScore(sc) == sc # NoScore /\ sc # 0

Indices(s) == [i \in 1..Len(s) |-> i]

\* <line> of one link; strokeWidth in hundredths, opacity in percent.
LineElement(link, index, pos) ==
    [tag |-> "line", key |-> index,
     source |-> link.source, target |-> link.target,
     x1 |-> pos[link.source].x, y1 |-> pos[link.source].y,
     x2 |-> pos[link.target].x, y2 |-> pos[link.target].y,
     strokeWidth |-> link.strength * 5,
     opacity |-> 100 - link.drift]

\* A link is drawn when both of its endpoints have an entry in positions.
LinkDrawn(link, pos) == MapHas(pos, link.source) /\ MapHas(pos, link.target)

\* data.links.map(...): the null entries are left out of the scene.
LinkElements(links, pos) ==
    LET kept == SelectSeq(Indices(links), LAMBDA i : LinkDrawn(links[i], pos))
    IN  [j \in 1..Len(kept) |-> LineElement(links[kept[j]], kept[j] - 1, pos)]

NodeSize(node) == IF node.type = "agent" THEN 20 ELSE 15

NodeColor(node) ==
    IF node.type = "agent" THEN "primary"
    ELSE IF node.type = "suite" THEN "secondary" ELSE "muted"

\* (value * 100).toFixed(0) + '%' of a value held as an integer percent.
Percent(v) == ToString(v) \o "%"

\* The "Score:" field of the node tooltip:
\* node.score ? (node.score * 100).toFixed(0) + '%' : 'N/A'
TooltipScore(node) ==
    IF TruthyScore(node.score) THEN Percent(node.score) ELSE "N/A"

\* node.score || 0.8, in percent.
NodeOpacity(node) == IF TruthyScore(node.score) THEN node.score ELSE 80

CircleElement(node, pos) ==
    [tag |-> "circle", key |-> node.id,
     cx |-> pos[node.id].x, cy |-> pos[node.id].y,
     r |-> NodeSize(node), fill |-> NodeColor(node),
     opacity |-> NodeOpacity(node),
     title |-> TooltipScore(node)]

LabelElement(node, pos) ==
    [tag |-> "label", key |-> node.id,
     x |-> pos[node.id].x,
     y |-> pos[node.id].y + (NodeSize(node) + 15) * 1000,
     text |-> IF node.label = NoLabel THEN "" ELSE node.label]

\* {node.score && (<text>...%</text>)}: the score text when node.score is
\* truthy, the bare number 0 as a text node when it is 0, nothing when it is
\* absent.
ScoreLabel(node) ==
    IF TruthyScore(node.score)
    THEN <<[tag |-> "score", key |-> node.id, text |-> Percent(node.score)]>>
    ELSE IF node.score = 0
         THEN <<[tag |-> "raw", key |-> node.id, text |-> ToString(0)]>>
         ELSE <<>>

\* The <g> of one node: circle, label, score label.
NodeGroup(node, pos) ==
    <<CircleElement(node, pos), LabelElement(node, pos)>> \o ScoreLabel(node)

RECURSIVE NodeElements(_, _, _)
NodeElements(nodes, pos, k) ==
    IF k > Len(nodes) THEN <<>>
    ELSE (IF MapHas(pos, nodes[k].id) THEN NodeGroup(nodes[k], pos) ELSE <<>>)
         \o NodeElements(nodes, pos, k + 1)

\* Mutant: the node groups are emitted before the links.
Scene_NodesFirst(d, pos) ==
    NodeElements(d.nodes, pos, 1) \o LinkElements(d.links, pos)

\* The children of the <svg>: the links, then the node groups.
Scene(d, pos) == LinkElements(d.links, pos) \o NodeElements(d.nodes, pos, 1)

\* data.links.map or data.nodes.map on a property that is undefined.
RenderThrows(d, l, e) ==
    /\ ~l
    /\ ~TruthyError(e)
    /\ d.kind = "object"
    /\ (~d.hasLinks \/ ~d.hasNodes)

NoView == [kind |-> "None", message |-> "", scene |-> <<>>]

\* What the component returns for the hook's values and the position map.
ViewOf(d, l, e, pos) ==
    IF l THEN [kind |-> "Loading", message |-> "Loading reliability network...",
               scene |-> <<>>]
    ELSE IF TruthyError(e) THEN [kind |-> "Error", message |-> e, scene |-> <<>>]
    ELSE IF d.kind = "null"
         THEN [kind |-> "Empty", message |-> "No reliability data available.",
               scene |-> <<>>]
    ELSE [kind |-> "Ready", message |-> "", scene |-> Scene(d, pos)]

\* ---------------------------------------------------------------- state
VARIABLES
    gen,           \* number of the current (latest) mount of the page
    mounted,       \* the current instance is mounted
    crashed,       \* the current instance was torn down by a throwing render
    data,          \* useState: data
    loading,       \* useState: loading
    error,         \* useState: error
    positions,     \* useState: positions
    queue,         \* state updates enqueued on the current instance
    effects,       \* passive effects scheduled by the last commit
    inflight,      \* mounts whose fetch has been issued and has not settled
    parsing,       \* mounts whose response arrived ok and whose json() is pending
    fetchCount,    \* fetches issued, per mount
    staleUpdates,  \* setter calls made on an instance that is not mounted
    view,          \* what the last render returned
    outcome        \* how the fetch of the current instance settled

vars == <<gen, mounted, crashed, data, loading, error, positions, queue,
          effects, inflight, parsing, fetchCount, staleUpdates, view, outcome>>

Mounts == 1..MaxMounts

Pending == [how |-> "pending", isError |-> FALSE, message |-> ""]

Init ==
    /\ gen = 1
    /\ mounted = TRUE
    /\ crashed = FALSE
    /\ data = Null
    /\ loading = TRUE
    /\ error = NoError
    /\ positions = EmptyMap
    /\ queue = <<>>
    /\ effects = {"fetch", "layout"}
    /\ inflight = {}
    /\ parsing = {}
    /\ fetchCount = [g \in Mounts |-> 0]
    /\ staleUpdates = 0
    /\ view = ViewOf(Null, TRUE, NoError, EmptyMap)
    /\ outcome = Pending

\* A state setter called from the continuation of mount g's fetch.  The
\* hook holds no cancelled flag and its effect returns no cleanup, so the
\* setters are called whether or not instance g is still mounted.
Dispatch(g, updates) ==
    IF g = gen /\ mounted
    THEN /\ queue' = queue \o updates
         /\ UNCHANGED staleUpdates
    ELSE /\ staleUpdates' = staleUpdates + Len(updates)
         /\ UNCHANGED queue

\* The settlement seen by the instance that issued the fetch, when it is
\* still mounted.
Settled(g, how, err) ==
    IF g = gen /\ mounted
    THEN outcome' = [how |-> how, isError |-> err.isError,
                     message |-> err.message]
    ELSE UNCHANGED outcome

BodyKind(body) ==
    IF body.kind = "null" THEN "null"
    ELSE IF body.hasNodes /\ body.hasLinks THEN "payload" ELSE "malformed"

\* Mutant: the caught error's message is replaced by the fallback text.
CatchMessage_Fallback(err) == "Unknown error"

\* catch (err): err instanceof Error ? err.message : 'Unknown error'
CatchMessage(err) == IF err.isError THEN err.message ELSE "Unknown error"

\* Mutant: the finally block is missing on the success path.
OnResolved_NoFinally(result) == <<[set |-> "data", val |-> result]>>

\* try { setData(result) } finally { setLoading(false) }
OnResolved(result) ==
    <<[set |-> "data", val |-> result], [set |-> "loading", val |-> FALSE]>>

\* Mutant: the finally block is missing on the failure path.
OnThrown_NoFinally(err) == <<[set |-> "error", val |-> CatchMessage(err)]>>

\* catch { setError(...) } finally { setLoading(false) }
OnThrown(err) ==
    <<[set |-> "error", val |-> CatchMessage(err)],
      [set |-> "loading", val |-> FALSE]>>

\* The bodies worth telling apart for mount g's fetch.  A continuation that
\* runs for an instance that is gone only calls the two setters, whatever
\* the body holds, so one body of each kind stands for all of them there.
BodiesFor(g) ==
    IF g = gen /\ mounted THEN Bodies
    ELSE Malformed \cup {Null, Payload(<<>>, <<>>)}

\* await fetch(...) resolves with response.ok: the continuation calls
\* response.json() and suspends again, without calling a setter.
ResponseOk(g) ==
    /\ g \in inflight
    /\ inflight' = inflight \ {g}
    /\ parsing' = parsing \cup {g}
    /\ UNCHANGED <<gen, mounted, crashed, data, loading, error, positions,
                   queue, effects, fetchCount, staleUpdates, view, outcome>>

\* await response.json() resolves to body.
SettleOk(g, body) ==
    /\ g \in parsing
    /\ parsing' = parsing \ {g}
    /\ UNCHANGED inflight
    /\ Dispatch(g, OnResolved(body))
    /\ Settled(g, BodyKind(body), Pending)
    /\ UNCHANGED <<gen, mounted, crashed, data, loading, error, positions,
                   effects, fetchCount, view>>

\* fetch resolves with a non-2xx status: the hook throws its own Error.
SettleHttpError(g) ==
    /\ g \in inflight
    /\ inflight' = inflight \ {g}
    /\ UNCHANGED parsing
    /\ Dispatch(g, OnThrown([isError |-> TRUE, message |-> HttpErrorMessage]))
    /\ Settled(g, "http", [isError |-> TRUE, message |-> HttpErrorMessage])
    /\ UNCHANGED <<gen, mounted, crashed, data, loading, error, positions,
                   effects, fetchCount, view>>

\* fetch itself rejects.
SettleRejected(g, err) ==
    /\ g \in inflight
    /\ inflight' = inflight \ {g}
    /\ UNCHANGED parsing
    /\ Dispatch(g, OnThrown(err))
    /\ Settled(g, "rejected", err)
    /\ UNCHANGED <<gen, mounted, crashed, data, loading, error, positions,
                   effects, fetchCount, view>>

\* await response.json() rejects.
SettleParseError(g, err) ==
    /\ g \in parsing
    /\ parsing' = parsing \ {g}
    /\ UNCHANGED inflight
    /\ Dispatch(g, OnThrown(err))
    /\ Settled(g, "parse", err)
    /\ UNCHANGED <<gen, mounted, crashed, data, loading, error, positions,
                   effects, fetchCount, view>>

\* The value a state has after the queued updates: the last one wins.
RECURSIVE Reduce(_, _, _)
Reduce(q, name, current) ==
    IF q = <<>> THEN current
    ELSE Reduce(Tail(q), name,
                IF Head(q).set = name THEN Head(q).val ELSE current)

\* Mutant: the position map outlives the instance (kept outside its state).
Reset_KeepPositions ==
    /\ data' = Null
    /\ loading' = TRUE
    /\ error' = NoError
    /\ positions' = positions
    /\ queue' = <<>>

\* The state of a fresh instance, and of one that is gone.
Reset ==
    /\ data' = Null
    /\ loading' = TRUE
    /\ error' = NoError
    /\ positions' = EmptyMap
    /\ queue' = <<>>

\* A re-render: every queued update is applied, the component function runs
\* on the new state, and the effect on [data] is scheduled when data changed.
Render ==
    /\ mounted
    /\ queue # <<>>
    /\ LET d == Reduce(queue, "data", data)
           l == Reduce(queue, "loading", loading)
           e == Reduce(queue, "error", error)
           p == Reduce(queue, "positions", positions)
       IN  IF RenderThrows(d, l, e)
           THEN /\ crashed' = TRUE
                /\ mounted' = FALSE
                /\ view' = NoView
                /\ effects' = {}
                /\ Reset
           ELSE /\ data' = d
                /\ loading' = l
                /\ error' = e
                /\ positions' = p
                /\ queue' = <<>>
                /\ view' = ViewOf(d, l, e, p)
                /\ effects' = IF d # data THEN {"layout"} ELSE {}
                /\ UNCHANGED <<crashed, mounted>>
    /\ UNCHANGED <<gen, inflight, parsing, fetchCount, staleUpdates, outcome>>

\* Mutant: the layout effect runs without its guard on data.
LayoutEffect_NoGuard(d) ==
    <<[set |-> "positions", val |-> Layout(d.nodes)]>>

\* useEffect(..., [data]) of the component: if (!data) return; otherwise
\* setPositions(newPositions).
LayoutEffect(d) ==
    IF d.kind = "null" THEN <<>>
    ELSE <<[set |-> "positions", val |-> Layout(d.nodes)]>>

\* Mutant: the fetch effect has no dependency array and runs after every
\* commit.
RunEffects_Refetch ==
    /\ mounted
    /\ effects # {}
    /\ fetchCount[gen] < 3
    /\ inflight' = inflight \cup {gen}
    /\ fetchCount' = [fetchCount EXCEPT ![gen] = @ + 1]
    /\ queue' = queue \o (IF "layout" \in effects THEN LayoutEffect(data)
                          ELSE <<>>)
    /\ effects' = {}
    /\ UNCHANGED <<gen, mounted, crashed, data, loading, error, positions,
                   parsing, staleUpdates, view, outcome>>

\* The passive effects of the last commit, in hook order: the data hook's
\* fetch effect (deps []) and the component's layout effect (deps [data]).
RunEffects ==
    /\ mounted
    /\ effects # {}
    /\ IF "fetch" \in effects
       THEN /\ inflight' = inflight \cup {gen}
            /\ fetchCount' = [fetchCount EXCEPT ![gen] = @ + 1]
       ELSE UNCHANGED <<inflight, fetchCount>>
    /\ queue' = queue \o (IF "layout" \in effects THEN LayoutEffect(data)
                          ELSE <<>>)
    /\ effects' = {}
    /\ UNCHANGED <<gen, mounted, crashed, data, loading, error, positions,
                   parsing, staleUpdates, view, outcome>>

\* The page is left: the instance is torn down.  Nothing aborts its fetch.
Unmount ==
    /\ mounted
    /\ effects = {}
    /\ mounted' = FALSE
    /\ view' = NoView
    /\ Reset
    /\ outcome' = Pending
    /\ UNCHANGED <<gen, crashed, effects, inflight, parsing, fetchCount,
                   staleUpdates>>

\* The page is opened again: a new instance with fresh state, rendered once.
Mount ==
    /\ ~mounted
    /\ gen < MaxMounts
    /\ gen' = gen + 1
    /\ mounted' = TRUE
    /\ crashed' = FALSE
    /\ Reset
    /\ effects' = {"fetch", "layout"}
    /\ view' = ViewOf(Null, TRUE, NoError, EmptyMap)
    /\ outcome' = Pending
    /\ UNCHANGED <<inflight, parsing, fetchCount, staleUpdates>>

Next ==
    \/ \E g \in inflight : ResponseOk(g)
    \/ \E g \in parsing : \E body \in BodiesFor(g) : SettleOk(g, body)
    \/ \E g \in inflight : SettleHttpError(g)
    \/ \E g \in inflight, err \in Rejections : SettleRejected(g, err)
    \/ \E g \in parsing, err \in ParseErrors : SettleParseError(g, err)
    \/ Render
    \/ RunEffects
    \/ Unmount
    \/ Mount

Spec == Init /\ [][Next]_vars

\* React runs every scheduled render and every scheduled passive effect.
FairSpec == Spec /\ WF_vars(Render) /\ WF_vars(RunEffects)

\* ------------------------------------------------- layout on wider inputs
\* The component from the commit of a resolved fetch on, for payloads of up
\* to MaxRing nodes over more ids: the layout effect runs and its map is
\* rendered.
LayoutPool ==
    NodePool \cup
    { [id |-> "agent", label |-> NoLabel, type |-> "suite", score |-> NoScore],
      [id |-> "s2", label |-> "Rhema", type |-> "memory", score |-> 100],
      [id |-> "s3", label |-> "Crisis Command", type |-> "suite", score |-> 50],
      [id |-> "s4", label |-> "Tutor", type |-> "persona", score |-> 50],
      [id |-> "s5", label |-> "s5", type |-> "memory", score |-> 50] }

LayoutPayloads == { Payload(ns, <<>>) : ns \in SeqsUpTo(LayoutPool, MaxRing) }

LayoutInit ==
    /\ gen = 1
    /\ mounted = TRUE
    /\ crashed = FALSE
    /\ data \in LayoutPayloads
    /\ loading = FALSE
    /\ error = NoError
    /\ positions = EmptyMap
    /\ queue = <<>>
    /\ effects = {"layout"}
    /\ inflight = {}
    /\ parsing = {}
    /\ fetchCount = [g \in Mounts |-> IF g = 1 THEN 1 ELSE 0]
    /\ staleUpdates = 0
    /\ view = ViewOf(data, FALSE, NoError, EmptyMap)
    /\ outcome = [how |-> "payload", isError |-> FALSE, message |-> ""]

LayoutNext ==
    \/ RunEffects
    \/ Render

SpecLayout == LayoutInit /\ [][LayoutNext]_vars

\* ---------------------------------------------------------------- claims
HasAgent(d) == \E i \in 1..Len(d.nodes) : d.nodes[i].id = "agent"

NodeIds(d) == { d.nodes[i].id : i \in 1..Len(d.nodes) }

Quiet == mounted /\ queue = <<>> /\ effects = {}

\* The one fetch of each mount: none before the mount effects have run, one
\* from then on.
FetchesIssued(g) ==
    IF g < gen THEN 1
    ELSE IF g = gen /\ "fetch" \notin effects THEN 1 ELSE 0

ViewStep ==
    (mounted /\ mounted' /\ gen' = gen)
        => \/ view'.kind = view.kind
           \/ /\ view.kind = "Loading"
              /\ view'.kind \in {"Ready", "Empty", "Error"}

\* C1: within one mount the view starts as Loading, its only transitions
\* are Loading -> Ready, Loading -> Empty and Loading -> Error, a state
\* other than Loading is never left, and each mount issues exactly one
\* fetch.
C1_OneShotStateMachine ==
    /\ [](\A g \in Mounts : fetchCount[g] = FetchesIssued(g))
    /\ []("fetch" \in effects => view.kind = "Loading")
    /\ [][ViewStep]_vars

C1_Witness ==
    /\ Quiet
    /\ view.kind = "Ready"
    /\ positions # EmptyMap
    /\ fetchCount[gen] = 1
    /\ gen \notin inflight
    /\ gen \notin parsing

\* C2: when the view is unmounted while its fetch is outstanding, the
\* settlement of that fetch leads to no state setter call on the unmounted
\* instance.
C2_StaleResolutionDiscarded == staleUpdates = 0

\* C3: in every render of the Ready state the position map already holds
\* the layout of the rendered payload.
C3_ReadyRendersWithLayout ==
    view.kind = "Ready" => positions = Layout(data.nodes)

\* C4: no render draws a payload with a position map computed from another
\* payload: the map the view holds, and any map queued for it, is empty or
\* is the layout of the payload the view holds, and a view without payload
\* holds no positions.
C4_NoStalePositions ==
    /\ view.kind = "Ready"
           => positions = EmptyMap \/ positions = Layout(data.nodes)
    /\ data.kind = "null" => positions = EmptyMap
    /\ \A i \in 1..Len(queue) :
           queue[i].set = "positions" => queue[i].val = Layout(data.nodes)

C4_Witness ==
    /\ gen = 2
    /\ view.kind = "Ready"
    /\ Len(data.nodes) = 2
    /\ positions = Layout(data.nodes)
    /\ Len(view.scene) > 0

\* C5: once a failed fetch has been rendered the view is Error, shows the
\* message of the failure verbatim and draws no graph; a non-2xx status
\* shows exactly "Failed to fetch reliability map data".
C5_ErrorShownVerbatim ==
    (Quiet /\ outcome.how \in {"http", "rejected", "parse"})
        => /\ view.kind = "Error"
           /\ view.scene = <<>>
           /\ outcome.isError => view.message = outcome.message
           /\ outcome.how = "http"
                  => view.message = "Failed to fetch reliability map data"

C5_Witness ==
    /\ Quiet
    /\ outcome.how = "rejected"
    /\ outcome.isError
    /\ view.kind = "Error"
    /\ view.message = "Load failed"

\* C6: a fetch that resolves to null puts the view in Empty, and no layout
\* is computed: the position map stays empty and no new map is queued.
C6_NullIsEmpty ==
    (mounted /\ outcome.how = "null")
        => /\ positions = EmptyMap
           /\ \A i \in 1..Len(queue) : queue[i].set # "positions"
           /\ queue = <<>> => view.kind = "Empty"

C6_Witness ==
    /\ Quiet
    /\ outcome.how = "null"
    /\ view.kind = "Empty"

LinkResolves(link, d) == link.source \in NodeIds(d) /\ link.target \in NodeIds(d)

DrawnLinkKeys(scene) ==
    { scene[i].key : i \in { j \in 1..Len(scene) : scene[j].tag = "line" } }

DrawnNodeIds(scene) ==
    { scene[i].key : i \in { j \in 1..Len(scene) : scene[j].tag = "circle" } }

\* C7: once the layout is in place, the drawn links are exactly the links
\* whose source and target are ids of nodes of the payload, and every node
\* of the payload is drawn.
C7_DanglingLinksDropped ==
    (view.kind = "Ready" /\ positions # EmptyMap)
        => /\ DrawnLinkKeys(view.scene)
                 = { i - 1 : i \in { j \in 1..Len(data.links) :
                                       LinkResolves(data.links[j], data) } }
           /\ DrawnNodeIds(view.scene) = NodeIds(data)

\* C8: the layout of a payload without a node "agent" holds no position for
\* "agent".
C8_NoDefaultCenter ==
    (data.kind = "object" /\ positions # EmptyMap /\ ~HasAgent(data))
        => ~MapHas(positions, "agent")

\* C9: a body that is not JSON, or JSON without the nodes/links shape, ends
\* in the Error state with the generic fetch-failure message, and never in
\* a crash.
C9_MalformedIsGenericError ==
    (outcome.how \in {"parse", "malformed"} /\ queue = <<>>)
        => /\ ~crashed
           /\ view.kind = "Error"
           /\ view.message = "Failed to fetch reliability map data"

\* C10: in every computed layout of a payload that has a node "agent", the
\* position of "agent" is (400, 300).
C10_AgentAtCenter ==
    /\ (data.kind = "object" /\ HasAgent(data) /\ positions # EmptyMap)
           => positions["agent"] = [x |-> 400000, y |-> 300000]
    /\ \A i \in 1..Len(queue) :
           (queue[i].set = "positions" /\ HasAgent(data))
               => queue[i].val["agent"] = [x |-> 400000, y |-> 300000]

C10_Witness ==
    /\ view.kind = "Ready"
    /\ Len(data.nodes) = 2
    /\ data.nodes[1].id = "s1"
    /\ data.nodes[2].id = "agent"
    /\ positions # EmptyMap
    /\ positions["agent"] = [x |-> 400000, y |-> 300000]

Surrounding(d) == SelectSeq(d.nodes, LAMBDA n : n.id # "agent")

LayoutDone == view.kind = "Ready" /\ positions # EmptyMap

\* C11: with n nodes other than "agent", in payload order, the i-th
\* (0-indexed) is placed at angle (i/n)*2*pi on the circle of radius 150
\* around the center; with n = 0 only the center position exists.
C11_RingAngles ==
    LayoutDone
        => LET sur == Surrounding(data)
               n == Len(sur)
           IN  /\ \A k \in 1..n :
                      positions[sur[k].id] =
                          [x |-> 400000 + 150 * CosMilli((360 * (k - 1)) \div n),
                           y |-> 300000 + 150 * SinMilli((360 * (k - 1)) \div n)]
               /\ n = 0 => DOMAIN positions = {"agent"}

Circles(scene) == SelectSeq(scene, LAMBDA el : el.tag = "circle")

\* C12: the fill opacity of every drawn node is its score when a score is
\* present (a score of 0 included) and the default 0.8 exactly when the
\* score is absent.
C12_OpacityIsScore ==
    LayoutDone
        => LET cs == Circles(view.scene)
           IN  /\ Len(cs) = Len(data.nodes)
               /\ \A i \in 1..Len(cs) :
                      cs[i].opacity = IF data.nodes[i].score = NoScore THEN 80
                                      ELSE data.nodes[i].score

\* C13: the score field of the tooltip reads "N/A" if and only if the node
\* has no score; a present score, 0 included, reads as its percentage, in
\* the tooltip and in the score label.
C13_ZeroIsNotUnmeasured ==
    LayoutDone
        => LET cs == Circles(view.scene)
           IN  /\ Len(cs) = Len(data.nodes)
               /\ \A i \in 1..Len(cs) :
                      /\ cs[i].title = "N/A" <=> data.nodes[i].score = NoScore
                      /\ data.nodes[i].score # NoScore
                             => /\ cs[i].title = Percent(data.nodes[i].score)
                                /\ \E j \in 1..Len(view.scene) :
                                       /\ view.scene[j].tag = "score"
                                       /\ view.scene[j].key = data.nodes[i].id
                                       /\ view.scene[j].text
                                              = Percent(data.nodes[i].score)

Lines(scene) == SelectSeq(scene, LAMBDA el : el.tag = "line")

\* C14: every drawn link has stroke width 5 * strength and opacity
\* 1 - drift, and the drawn opacity lies in [0,1].
C14_LinkEncodingClamped ==
    view.kind = "Ready"
        => \A i \in 1..Len(Lines(view.scene)) :
               LET el == Lines(view.scene)[i]
                   link == data.links[el.key + 1]
               IN  /\ el.strokeWidth = 5 * link.strength
                   /\ el.opacity >= 0
                   /\ el.opacity <= 100
                   /\ (link.drift \in 0..100 => el.opacity = 100 - link.drift)

IsLabel(el) == el.tag \in {"label", "score", "raw"}

\* C16 (as claimed): links first, then all node markers, then all labels.
C16_LinksMarkersLabels ==
    view.kind = "Ready"
        => \A i, j \in 1..Len(view.scene) :
               i < j => /\ view.scene[j].tag = "line"
                            => view.scene[i].tag = "line"
                        /\ view.scene[j].tag = "circle"
                            => ~IsLabel(view.scene[i])

\* C16 (amended): all links are emitted before any node element; then one
\* group per drawn node, in payload order, each holding the node's marker,
\* then its label, then its score label.
C16_LinksThenNodeGroups ==
    view.kind = "Ready"
        => LET sc == view.scene
           IN  /\ \A i, j \in 1..Len(sc) :
                      (i < j /\ sc[j].tag = "line") => sc[i].tag = "line"
               /\ \A i \in 1..Len(sc) :
                      /\ sc[i].tag = "circle"
                             => /\ i < Len(sc)
                                /\ sc[i + 1].tag = "label"
                                /\ sc[i + 1].key = sc[i].key
                      /\ sc[i].tag = "label"
                             => /\ i > 1
                                /\ sc[i - 1].tag = "circle"
                      /\ sc[i].tag \in {"score", "raw"}
                             => /\ i > 1
                                /\ sc[i - 1].tag = "label"
                                /\ sc[i - 1].key = sc[i].key
               /\ positions # EmptyMap
                      => [i \in 1..Len(Circles(sc)) |-> Circles(sc)[i].key]
                             = [i \in 1..Len(data.nodes) |-> data.nodes[i].id]

C16_Witness ==
    /\ view.kind = "Ready"
    /\ Len(Lines(view.scene)) = 1
    /\ Len(Circles(view.scene)) = 2
    /\ \E i \in 1..Len(view.scene) : view.scene[i].tag = "score"

DuplicateIds(d) ==
    \E i, j \in 1..Len(d.nodes) : i # j /\ d.nodes[i].id = d.nodes[j].id

\* C17: a payload in which two nodes share an id is shown as an error, not
\* laid out and drawn.
C17_DuplicateIdsRejected ==
    (mounted /\ queue = <<>> /\ outcome.how = "payload" /\ DuplicateIds(data))
        => view.kind = "Error"

\* C18: data and error are never both non-null, both are null while loading
\* is true, and the graph is drawn only with loading false, error null and
\* data non-null.
C18_HookStateExclusive ==
    /\ ~(data.kind # "null" /\ error # NoError)
    /\ loading => (data = Null /\ error = NoError)
    /\ view.kind = "Ready"
           => (~loading /\ error = NoError /\ data.kind = "object")
    /\ view.kind = "Loading" => loading

C18_Witness ==
    /\ Quiet
    /\ view.kind = "Ready"
    /\ ~loading
    /\ data.kind = "object"
    /\ Len(view.scene) > 0

\* The node sequences that differ from ns in the attributes of one node.
AttributeVariants(ns) ==
    { [ns EXCEPT ![i] = v] : i \in 1..Len(ns), v \in LayoutPool }

SameIds(ns, ms) ==
    /\ Len(ns) = Len(ms)
    /\ \A i \in 1..Len(ns) : ns[i].id = ms[i].id

\* C15: the layout depends only on the ids, their order and their count:
\* node sequences with the same ids in the same order and other labels,
\* types or scores have the position map the view computed, and so has every map
\* queued for the view.
C15_LayoutIgnoresAttributes ==
    \A ms \in AttributeVariants(data.nodes) :
        SameIds(data.nodes, ms)
            => /\ positions # EmptyMap => Layout(ms) = positions
               /\ \A i \in 1..Len(queue) :
                      queue[i].set = "positions" => queue[i].val = Layout(ms)

C15_Witness ==
    /\ positions # EmptyMap
    /\ Len(data.nodes) = 3
    /\ data.nodes[1] = [id |-> "s1", label |-> "Suite 1", type |-> "suite",
                         score |-> 0]
    /\ data.nodes[2] = [id |-> "agent", label |-> NoLabel, type |-> "suite",
                         score |-> NoScore]
    /\ data.nodes[3] = [id |-> "s2", label |-> "Rhema", type |-> "memory",
                         score |-> 100]
    /\ positions =
           Layout(<<[id |-> "s1", label |-> "Calculator Demo Suite",
                     type |-> "suite", score |-> 80],
                    [id |-> "agent", label |-> "Active Agent",
                     type |-> "agent", score |-> 85],
                    [id |-> "s2", label |-> NoLabel, type |-> "persona",
                     score |-> NoScore]>>)

\* C19: for a payload with pairwise distinct node ids the positions are
\* pairwise distinct, and no node other than "agent" is at the center.
C19_DistinctPositions ==
    (positions # EmptyMap /\ data.kind = "object" /\ ~DuplicateIds(data))
        => /\ \A i, j \in 1..Len(data.nodes) :
                  i # j => positions[data.nodes[i].id]
                               # positions[data.nodes[j].id]
           /\ \A i \in 1..Len(data.nodes) :
                  data.nodes[i].id # "agent"
                      => positions[data.nodes[i].id]
                             # [x |-> 400000, y |-> 300000]

C19_Witness ==
    /\ view.kind = "Ready"
    /\ positions # EmptyMap
    /\ Len(data.nodes) = 4
    /\ ~DuplicateIds(data)
    /\ ~HasAgent(data)
    /\ Cardinality({ positions[k] : k \in DOMAIN positions }) = 5

SettledWhileMounted == mounted /\ outcome.how # "pending"

\* C20: however the fetch settles, setLoading(false) is queued for the
\* mounted view and the view then leaves Loading (or is torn down); a
\* mounted view with nothing left to render is in Loading only while its
\* fetch has not settled.
C20_SettledLeavesLoading ==
    /\ []((SettledWhileMounted /\ loading)
              => /\ queue # <<>>
                 /\ queue[Len(queue)].set = "loading"
                 /\ queue[Len(queue)].val = FALSE)
    /\ []((mounted /\ queue = <<>> /\ view.kind = "Loading")
              => outcome.how = "pending")
    /\ SettledWhileMounted
           ~> (~mounted \/ (~loading /\ view.kind # "Loading"))

C20_Witness ==
    /\ Quiet
    /\ outcome.how = "parse"
    /\ ~loading
    /\ view.kind = "Error"

====
